---- MODULE Spec2Model ----
(***************************************************************************)
(* FileHub admin console (src/filehub_dash.py): a Streamlit script that is *)
(* re-run top to bottom on every refresh.  Each run reads the clock, opens *)
(* a 300 s gate that mints a new run_id and calls the sweep, then renders  *)
(* the (memoized) bucket listing.                                          *)
(*                                                                         *)
(* Time is counted in clock ticks, Res ticks to the second, so that the    *)
(* fractional seconds of datetime.utcnow() and total_seconds() are kept.   *)
(* The Size field of a listed object only feeds the MB totals and is left  *)
(* out.  The bucket's content is chosen when the session starts; after     *)
(* that only the sweep changes it.                                         *)
(***************************************************************************)
EXTENDS Integers, Sequences, FiniteSets, TLC

VARIABLES
    clock,          \* datetime.utcnow(), in ticks
    store,          \* the bucket: key -> LastModified (ticks)
    cache,          \* st.cache_data entries of get_cached_s3_listing: run_id -> [at, val]
    run_id,         \* st.session_state["run_id"]   (NoTime: key absent)
    last_s3_refresh_time, \* st.session_state["last_s3_refresh_time"] (NoTime: absent)
    deletion_log,   \* st.session_state["deletion_log"] (absent = empty, see AppendLog)
    op,             \* the operation that just ran and how it ended
    view,           \* what that operation rendered
    swp,            \* what the latest sweep read and did
    mints,          \* history: times of the latest two assignments of a new run_id
    calls,          \* history: get_cached_s3_listing calls made with the current run_id
    gone,           \* history: keys a sweep has deleted from the bucket
    mkey,           \* masker harness: the key under test
    mout            \* masker harness: the masked key

vars == <<clock, store, cache, run_id, last_s3_refresh_time, deletion_log,
          op, view, swp, mints, calls, gone, mkey, mout>>

----------------------------------------------------------------------------
(* Bounds of the model *)

Res == 2          \* clock ticks per second
MaxDrift == 2     \* ticks the clock may advance while one sort computes its keys
MaxLog == 2       \* entries the deletion log may hold
MaxMint == 2      \* run_ids minted by a direct caller
MaxParts == 6     \* pieces a generated key is made of

(* Program constants *)

ExpirySeconds == 900     \* "Older than 15 minutes"
RefreshSeconds == 300    \* "every 5 minutes"
CacheTtl == 300          \* st.cache_data(ttl=300)
TokenLen == 8
AllHorizon == 86400

NoTime == -1
Sec(n) == n * Res

Min(S) == CHOOSE x \in S : \A y \in S : x <= y
Max(S) == CHOOSE x \in S : \A y \in S : x >= y

----------------------------------------------------------------------------
(* Strings are sequences of one-character strings. *)

Slash == <<"/">>
UU == <<"_", "_">>
Xs == <<"X", "X", "X", "X", "X", "X">>

\* "pat in s"
Contains(s, pat) ==
    \E i \in 1..(Len(s) - Len(pat) + 1) : SubSeq(s, i, i + Len(pat) - 1) = pat

\* s.split(pat, 1)
Split1(s, pat) ==
    IF Contains(s, pat)
    THEN LET i == Min({j \in 1..(Len(s) - Len(pat) + 1) :
                          SubSeq(s, j, j + Len(pat) - 1) = pat})
         IN  <<SubSeq(s, 1, i - 1), SubSeq(s, i + Len(pat), Len(s))>>
    ELSE <<s>>

\* token[-2:]
Last2(s) == SubSeq(s, Max({1, Len(s) - 1}), Len(s))

\* (mutant) the masking step without its check of the token's length
MaskNoLength(key) ==
    IF Contains(key, Slash) /\ Contains(key, UU)
    THEN LET rest == Split1(key, Slash)[2]
             tf == Split1(rest, UU)
         IN  IF Len(tf) = 2
             THEN Split1(key, Slash)[1] \o Slash \o Xs \o Last2(tf[1]) \o UU \o tf[2]
             ELSE key
    ELSE key

\* the masking step of both views
Mask(key) ==
    IF Contains(key, Slash) /\ Contains(key, UU)
    THEN LET pr == Split1(key, Slash)
             prefix == pr[1]
             rest == pr[2]
             token_and_filename == Split1(rest, UU)
         IN  IF Len(token_and_filename) = 2
             THEN LET token == token_and_filename[1]
                      filename == token_and_filename[2]
                  IN  IF Len(token) = TokenLen
                      THEN prefix \o Slash \o Xs \o Last2(token) \o UU \o filename
                      ELSE key
             ELSE key
    ELSE key

----------------------------------------------------------------------------
(* The bucket *)

KeyA == <<"d", "/", "A", "b", "C", "d", "E", "f", "G", "h", "_", "_", "r">>
KeyB == <<"w">>
Keys == {KeyA, KeyB}
\* list_objects_v2 returns the keys in ascending (binary) order
KeyOrder == <<KeyA, KeyB>>

\* LastModified values the objects may carry: 900 s before time 0 and one
\* tick earlier, time 0 and one tick later (ahead of a clock that reads 0)
LMs(k) ==
    IF k = KeyA THEN {-Sec(ExpirySeconds), 0} ELSE {-Sec(ExpirySeconds) - 1, 1}

\* the moments at which operations run: time 0, 300 s later to the tick,
\* and one and two ticks after that
Instants == {0} \cup {Sec(RefreshSeconds) + d : d \in {0, 1, 2}}

\* every content the bucket may have when the session starts
Buckets ==
    UNION {{b \in [ks -> LMs(KeyA) \cup LMs(KeyB)] : \A k \in ks : b[k] \in LMs(k)} :
              ks \in SUBSET Keys}

\* response.get("Contents", [])
ListObjects(st) ==
    LET present == SelectSeq(KeyOrder, LAMBDA k : k \in DOMAIN st)
    IN  [i \in 1..Len(present) |-> [Key |-> present[i], LastModified |-> st[present[i]]]]

Remove(st, k) == [x \in DOMAIN st \ {k} |-> st[x]]

----------------------------------------------------------------------------
(* Ages and thresholds.  d is a timedelta in ticks. *)

\* int(d.total_seconds()): int() truncates toward zero
TruncSec(d) == IF d >= 0 THEN d \div Res ELSE -((-d) \div Res)
\* the floor of d.total_seconds(), for comparison
FloorSec(d) == d \div Res

\* (now - last_s3_refresh_time).total_seconds() > 300
GateOpen(now, last) == now - last > Sec(RefreshSeconds)

\* (mutant) the sweep taking a record of exactly 900 s
ExpiredAt(now, lm) == now - lm >= Sec(ExpirySeconds)
\* age_seconds > 900, age_seconds the unrounded total_seconds()
Expired(now, lm) == now - lm > Sec(ExpirySeconds)

\* (mutant) a record of exactly 900 s counted active
IsActiveAt(now, lm) == now - lm <= Sec(ExpirySeconds)
\* (now - LastModified).total_seconds() < 900
IsActive(now, lm) == now - lm < Sec(ExpirySeconds)

\* time_remaining = 900 - int(age)
TimeRemaining(now, lm) == ExpirySeconds - TruncSec(now - lm)

\* the active view's sort key; t is the clock as read for this record
SortKey(t, lm) == Sec(ExpirySeconds) - (t - lm)
\* the all-files view's sort key
AllSortKey(now, lm) == Sec(AllHorizon) - (now - lm)

\* f"Deleted {key} at {now.strftime('%Y-%m-%d %H:%M:%S')} UTC"
LogEntry(key, now) == [key |-> key, at |-> now \div Res]

\* (mutant) the log list created anew for every entry
AppendLogFresh(log, key, now) == <<LogEntry(key, now)>>
\* the list is created right before its first append, so an absent list and
\* an empty one are the same state
AppendLog(log, key, now) == Append(log, LogEntry(key, now))

----------------------------------------------------------------------------
(* st.cache_data(ttl=300): entries keyed by the argument, kept for 300 s *)

\* (mutant) a memo that never answers
CacheHitNever(c, rid, now) == FALSE
\* (mutant) a memo that ignores its key
CacheHitAnyKey(c, rid, now) ==
    \E r \in DOMAIN c : now < c[r].at + Sec(CacheTtl)
CacheHit(c, rid, now) ==
    rid \in DOMAIN c /\ now < c[rid].at + Sec(CacheTtl)

\* the value a hit returns
CacheGet(c, rid, now) ==
    IF rid \in DOMAIN c THEN c[rid].val
    ELSE c[CHOOSE r \in DOMAIN c : now < c[r].at + Sec(CacheTtl)].val

\* a miss that returns stores its value; expired entries are dropped then
CachePut(c, rid, now, val) ==
    LET live == {r \in DOMAIN c : now < c[r].at + Sec(CacheTtl)} \ {rid}
    IN  [r \in live \cup {rid} |->
            IF r = rid THEN [at |-> now, val |-> val] ELSE c[r]]

\* get_cached_s3_listing(rid) at time now; ok: list_objects_v2 answers
GetCachedListing(rid, now, ok) ==
    LET hit == CacheHit(cache, rid, now)
        val == IF hit THEN CacheGet(cache, rid, now) ELSE ListObjects(store)
    IN  [reached |-> ~hit,
         raised |-> ~hit /\ ~ok,
         val |-> IF ~hit /\ ~ok THEN <<>> ELSE val,
         cache |-> IF hit \/ ~ok THEN cache ELSE CachePut(cache, rid, now, val)]

----------------------------------------------------------------------------
(* delete_expired_files: the loop over the snapshot *)

RECURSIVE SweepLoop(_, _, _, _)
\* acc: [log, store, issued, deleted]; failing: keys whose delete_object raises
SweepLoop(objs, now, failing, acc) ==
    IF objs = <<>> THEN acc
    ELSE LET obj == Head(objs)
             next ==
                IF Expired(now, obj.LastModified)
                THEN [log |-> AppendLog(acc.log, obj.Key, now),
                      issued |-> Append(acc.issued, obj.Key),
                      store |-> IF obj.Key \in failing THEN acc.store
                                ELSE Remove(acc.store, obj.Key),
                      deleted |-> IF obj.Key \in failing THEN acc.deleted
                                  ELSE acc.deleted \cup {obj.Key}]
                ELSE acc
         IN  SweepLoop(Tail(objs), now, failing, next)

----------------------------------------------------------------------------
(* list_active_filehub_objects_ui: the two views *)

RECURSIVE SortByKey(_)
\* sorted(..., key=...): stable, ascending; s holds [k, row]
SortByKey(s) ==
    IF Len(s) <= 1 THEN s
    ELSE LET h == Head(s)
             rest == SortByKey(Tail(s))
             n == Cardinality({i \in 1..Len(rest) : rest[i].k < h.k})
         IN  SubSeq(rest, 1, n) \o <<h>> \o SubSeq(rest, n + 1, Len(rest))

Row(obj, now) ==
    [obj |-> obj,
     shown |-> Mask(obj.Key),
     time_remaining |-> TimeRemaining(now, obj.LastModified)]

ActiveFiles(contents, now) ==
    SelectSeq(contents, LAMBDA obj : IsActive(now, obj.LastModified))

\* reads[i]: how far the clock has moved when the key of the i-th active
\* file is computed
ActiveView(contents, now, reads) ==
    LET active == ActiveFiles(contents, now)
        keyed == [i \in 1..Len(active) |->
                    [k |-> SortKey(now + reads[i], active[i].LastModified),
                     row |-> Row(active[i], now)]]
        sorted == SortByKey(keyed)
    IN  [i \in 1..Len(sorted) |-> sorted[i].row]

AllView(contents, now) ==
    LET keyed == [i \in 1..Len(contents) |->
                    [k |-> AllSortKey(now, contents[i].LastModified),
                     row |-> Row(contents[i], now)]]
        sorted == SortByKey(keyed)
    IN  [i \in 1..Len(sorted) |-> sorted[i].row]

\* the clock reads one sort may see: each at or after the one before
Reads(n) ==
    {r \in [1..n -> 0..MaxDrift] : \A i \in 1..n : \A j \in i..n : r[i] <= r[j]}

Render(contents, now, reads) ==
    [active |-> ActiveView(contents, now, reads),
     all |-> AllView(contents, now),
     log |-> deletion_log]

NoView == [active |-> <<>>, all |-> <<>>, log |-> <<>>]

----------------------------------------------------------------------------
(* Bookkeeping of the histories *)

NoOp == [name |-> "init", outcome |-> "ok", now |-> 0, gate |-> FALSE,
         swept |-> FALSE, rendered |-> FALSE, reached |-> FALSE, listing |-> <<>>]

NoSweep == [ran |-> FALSE, rid |-> NoTime, now |-> 0, reached |-> FALSE,
            snap |-> <<>>, issued |-> <<>>, failed |-> {}, deleted |-> {},
            added |-> <<>>]

NoCalls == [rid |-> NoTime, first |-> NoTime, reached |-> FALSE, twice |-> FALSE,
            raised |-> FALSE, returned |-> FALSE, hit |-> FALSE,
            firstReached |-> TRUE, firstReturnReached |-> TRUE,
            lateReach |-> FALSE, same |-> TRUE, newKeySoon |-> FALSE]

\* a run_id is minted when the assignment changes it
NoteMint(rid) ==
    IF rid = run_id THEN mints
    ELSE [prev |-> mints.last, last |-> rid, n |-> mints.n + 1]

\* res: what get_cached_s3_listing(rid) did at time now.  The record is about
\* the calls made with one run_id less than 300 s after the first of them:
\*   reached, twice      one call, two calls got to list_objects_v2
\*   raised, returned    a call raised, a call returned
\*   hit                 a call was answered from the memo
\*   firstReached        the first call got to list_objects_v2
\*   firstReturnReached  the first call that returned got to list_objects_v2
\*   lateReach           a call after one that returned got to list_objects_v2
\*   same                every answer from the memo was the value stored
\*   newKeySoon          at the first call the memo held a live entry of
\*                       another run_id
NoteCall(rid, now, res) ==
    IF calls.rid # rid
    THEN [rid |-> rid, first |-> now,
          reached |-> res.reached, twice |-> FALSE,
          raised |-> res.raised, returned |-> ~res.raised, hit |-> ~res.reached,
          firstReached |-> res.reached,
          firstReturnReached |-> res.raised \/ res.reached,
          lateReach |-> FALSE,
          same |-> res.reached \/ (rid \in DOMAIN cache /\ res.val = cache[rid].val),
          newKeySoon |-> \E r \in DOMAIN cache : now < cache[r].at + Sec(CacheTtl)]
    ELSE IF now - calls.first < Sec(CacheTtl)
    THEN [calls EXCEPT
            !.reached = @ \/ res.reached,
            !.twice = @ \/ (calls.reached /\ res.reached),
            !.raised = @ \/ res.raised,
            !.returned = @ \/ ~res.raised,
            !.hit = @ \/ ~res.reached,
            !.firstReturnReached = @ /\ (calls.returned \/ res.raised \/ res.reached),
            !.lateReach = @ \/ (calls.returned /\ res.reached),
            !.same = @ /\ (res.reached \/
                            (rid \in DOMAIN cache /\ res.val = cache[rid].val))]
    ELSE calls

----------------------------------------------------------------------------
(* The environment *)

Init ==
    /\ clock = 0
    /\ store \in Buckets
    /\ cache = [r \in {} |-> 0]
    /\ run_id = NoTime
    /\ last_s3_refresh_time = NoTime
    /\ deletion_log = <<>>
    /\ op = NoOp
    /\ view = NoView
    /\ swp = NoSweep
    /\ mints = [prev |-> NoTime, last |-> NoTime, n |-> 0]
    /\ calls = NoCalls
    /\ gone = {}
    /\ mkey = <<>>
    /\ mout = <<>>

\* time passes between two operations; what other programs have put into
\* the bucket is chosen by Init
Advance ==
    /\ \E t \in Instants : t > clock /\ clock' = t
    /\ op' = [NoOp EXCEPT !.name = "env"]
    /\ view' = NoView
    /\ UNCHANGED <<store, cache, run_id, last_s3_refresh_time, deletion_log,
                   swp, mints, calls, gone, mkey, mout>>

----------------------------------------------------------------------------
(* One run of the script, top to bottom *)

\* lines 32-35: the session's keys as the gate reads them
SessionRunId == IF run_id = NoTime THEN clock ELSE run_id
SessionLast == IF last_s3_refresh_time = NoTime THEN clock ELSE last_s3_refresh_time

\* The gate is open: run_id is assigned, and the call of delete_expired_files
\* finds the name unbound (its def statement comes later in the script, and
\* every run starts from an empty namespace): the run ends in a NameError.
TickGate ==
    /\ GateOpen(clock, SessionLast)
    /\ run_id' = clock
    /\ last_s3_refresh_time' = SessionLast
    /\ mints' = NoteMint(clock)
    /\ op' = [NoOp EXCEPT !.name = "tick", !.outcome = "NameError",
                          !.now = clock, !.gate = TRUE]
    /\ view' = NoView
    /\ UNCHANGED <<clock, store, cache, deletion_log, swp, calls, gone, mkey, mout>>

\* The gate is shut: the run goes on to list_active_filehub_objects_ui.
TickRender ==
    /\ ~GateOpen(clock, SessionLast)
    /\ LET res == GetCachedListing(SessionRunId, clock, TRUE)
       IN  /\ \E reads \in Reads(Len(ActiveFiles(res.val, clock))) :
                /\ clock' = clock + (IF reads = <<>> THEN 0 ELSE reads[Len(reads)])
                /\ clock' \in Instants
                /\ view' = Render(res.val, clock, reads)
           /\ cache' = res.cache
           /\ calls' = NoteCall(SessionRunId, clock, res)
           /\ op' = [NoOp EXCEPT !.name = "tick", !.now = clock, !.rendered = TRUE,
                                 !.reached = res.reached, !.listing = res.val]
    /\ run_id' = SessionRunId
    /\ last_s3_refresh_time' = SessionLast
    /\ mints' = NoteMint(SessionRunId)
    /\ UNCHANGED <<store, deletion_log, swp, gone, mkey, mout>>

\* The gate is shut and list_objects_v2 raises: nothing catches it.
TickListError ==
    /\ ~GateOpen(clock, SessionLast)
    /\ ~CacheHit(cache, SessionRunId, clock)
    /\ LET res == GetCachedListing(SessionRunId, clock, FALSE)
       IN  /\ calls' = NoteCall(SessionRunId, clock, res)
           /\ op' = [NoOp EXCEPT !.name = "tick", !.outcome = "ListError",
                                 !.now = clock, !.reached = TRUE]
    /\ run_id' = SessionRunId
    /\ last_s3_refresh_time' = SessionLast
    /\ mints' = NoteMint(SessionRunId)
    /\ view' = NoView
    /\ UNCHANGED <<clock, store, cache, deletion_log, swp, gone, mkey, mout>>

Next == TickGate \/ TickRender \/ TickListError \/ Advance

Spec == Init /\ [][Next]_vars

----------------------------------------------------------------------------
(* The functions called one by one, by a caller for whom the names are     *)
(* bound (as at the call site of lines 178-179).                           *)

\* st.session_state["run_id"] = str(now)
CallMint ==
    /\ run_id # clock
    /\ mints.n < MaxMint
    /\ run_id' = clock
    /\ mints' = NoteMint(clock)
    /\ op' = [NoOp EXCEPT !.name = "mint", !.now = clock]
    /\ view' = NoView
    /\ UNCHANGED <<clock, store, cache, last_s3_refresh_time, deletion_log,
                   swp, calls, gone, mkey, mout>>

\* the records of a snapshot the sweep takes
ExpiredKeys(snap, now) ==
    {snap[i].Key : i \in {j \in 1..Len(snap) : Expired(now, snap[j].LastModified)}}

\* delete_expired_files()
CallSweep ==
    /\ run_id # NoTime
    /\ LET res == GetCachedListing(run_id, clock, TRUE)
       IN  \E failing \in SUBSET ExpiredKeys(res.val, clock) :
             LET out == SweepLoop(res.val, clock, failing,
                                  [log |-> deletion_log, store |-> store,
                                   issued |-> <<>>, deleted |-> {}])
             IN  /\ Len(out.log) <= MaxLog
                 /\ deletion_log' = out.log
                 /\ store' = out.store
                 /\ cache' = res.cache
                 /\ calls' = NoteCall(run_id, clock, res)
                 /\ gone' = gone \cup out.deleted
                 /\ swp' = [ran |-> TRUE, rid |-> run_id, now |-> clock,
                            reached |-> res.reached, snap |-> res.val,
                            issued |-> out.issued, failed |-> failing,
                            deleted |-> out.deleted,
                            added |-> SubSeq(out.log, Len(deletion_log) + 1, Len(out.log))]
                 /\ op' = [NoOp EXCEPT !.name = "sweep", !.now = clock, !.swept = TRUE,
                                       !.reached = res.reached, !.listing = res.val]
    /\ view' = NoView
    /\ UNCHANGED <<clock, run_id, last_s3_refresh_time, mints, mkey, mout>>

\* list_active_filehub_objects_ui()
CallRender ==
    /\ run_id # NoTime
    /\ LET res == GetCachedListing(run_id, clock, TRUE)
       IN  /\ \E reads \in Reads(Len(ActiveFiles(res.val, clock))) :
                /\ clock' = clock + (IF reads = <<>> THEN 0 ELSE reads[Len(reads)])
                /\ clock' \in Instants
                /\ view' = Render(res.val, clock, reads)
           /\ cache' = res.cache
           /\ calls' = NoteCall(run_id, clock, res)
           /\ op' = [NoOp EXCEPT !.name = "render", !.now = clock, !.rendered = TRUE,
                                 !.reached = res.reached, !.listing = res.val]
    /\ UNCHANGED <<store, run_id, last_s3_refresh_time, deletion_log, swp,
                   mints, gone, mkey, mout>>

\* either function, with list_objects_v2 raising: the caller gets the error
CallListError ==
    /\ run_id # NoTime
    /\ ~CacheHit(cache, run_id, clock)
    /\ LET res == GetCachedListing(run_id, clock, FALSE)
       IN  /\ calls' = NoteCall(run_id, clock, res)
           /\ \E f \in {"sweep", "render"} :
                op' = [NoOp EXCEPT !.name = f, !.outcome = "ListError",
                                   !.now = clock, !.reached = TRUE]
    /\ view' = NoView
    /\ UNCHANGED <<clock, store, cache, run_id, last_s3_refresh_time,
                   deletion_log, swp, mints, gone, mkey, mout>>

NextCalls == CallMint \/ CallSweep \/ CallRender \/ CallListError \/ Advance

SpecCalls == Init /\ [][NextCalls]_vars

----------------------------------------------------------------------------
(* The masking step alone, over generated keys *)

Pieces == {<<"x">>, <<"/">>, <<"_">>, <<"_", "_">>,
           <<"A", "b", "C", "d", "E", "f", "G">>, <<"h">>}

RECURSIVE Flatten(_)
Flatten(ps) == IF ps = <<>> THEN <<>> ELSE Head(ps) \o Flatten(Tail(ps))

GenKeys == {Flatten(ps) : ps \in UNION {[1..n -> Pieces] : n \in 0..MaxParts}}

InitMask ==
    /\ mkey \in GenKeys
    /\ mout = <<>>
    /\ clock = 0
    /\ store = [k \in {} |-> 0]
    /\ cache = [r \in {} |-> 0]
    /\ run_id = NoTime
    /\ last_s3_refresh_time = NoTime
    /\ deletion_log = <<>>
    /\ op = NoOp
    /\ view = NoView
    /\ swp = NoSweep
    /\ mints = [prev |-> NoTime, last |-> NoTime, n |-> 0]
    /\ calls = NoCalls
    /\ gone = {}

DoMask ==
    /\ op.name = "init"
    /\ mout' = Mask(mkey)
    /\ op' = [NoOp EXCEPT !.name = "mask"]
    /\ UNCHANGED <<clock, store, cache, run_id, last_s3_refresh_time,
                   deletion_log, view, swp, mints, calls, gone, mkey>>

SpecMask == InitMask /\ [][DoMask]_vars

----------------------------------------------------------------------------
(* Properties *)

IsPrefix(s, t) == Len(s) <= Len(t) /\ SubSeq(t, 1, Len(s)) = s

Range(s) == {s[i] : i \in 1..Len(s)}

\* a sweep has just been recorded; age of the i-th record of its snapshot
SweepAge(i) == swp.now - swp.snap[i].LastModified

\* C1 as claimed: the sweep issues delete_object for exactly the records
\* whose age floored to whole seconds is greater than 900.
C1_FlooredSelection ==
    swp.ran =>
        Range(swp.issued) =
            {swp.snap[i].Key : i \in {j \in 1..Len(swp.snap) :
                                        FloorSec(SweepAge(j)) > ExpirySeconds}}

\* C1 as amended: the sweep issues delete_object, in listing order, for
\* exactly the records whose unrounded age exceeds 900 s.  A record of
\* exactly 900.0 s is never deleted, a record of 901 s or more always is,
\* and a record between 900 and 901 s (floored age 900) is deleted too.
C1_UnroundedSelection ==
    swp.ran =>
        /\ swp.issued =
              LET old == SelectSeq(swp.snap,
                            LAMBDA o : swp.now - o.LastModified > ExpirySeconds * Res)
              IN  [i \in 1..Len(old) |-> old[i].Key]
        /\ \A i \in 1..Len(swp.snap) :
              /\ SweepAge(i) = ExpirySeconds * Res
                    => swp.snap[i].Key \notin Range(swp.issued)
              /\ FloorSec(SweepAge(i)) >= ExpirySeconds + 1
                    => swp.snap[i].Key \in Range(swp.issued)

\* a sweep deleted a record whose floored age is 900
C1_Witness ==
    /\ swp.ran
    /\ \E i \in 1..Len(swp.snap) :
          /\ FloorSec(SweepAge(i)) = ExpirySeconds
          /\ swp.snap[i].Key \in Range(swp.issued)

\* C2 as claimed: the sweep attempts every expired record whatever fails,
\* and the log gains exactly one entry per delete that succeeded and none
\* for a delete that raised.
C2_LogOnlySuccesses ==
    swp.ran =>
        /\ Range(swp.issued) = ExpiredKeys(swp.snap, swp.now)
        /\ [i \in 1..Len(swp.added) |-> swp.added[i].key] =
              SelectSeq(swp.issued, LAMBDA k : k \notin swp.failed)

\* C3 as claimed: a run that finds the gate open mints the run_id, runs the
\* sweep, sets last_s3_refresh_time to its time and renders.
C3_GateRunsSweep ==
    (op.name = "tick" /\ op.gate) =>
        /\ run_id = op.now
        /\ op.swept
        /\ last_s3_refresh_time = op.now
        /\ op.rendered

\* C4 as claimed: two consecutive mintings of a run_id are more than 300 s
\* apart.
C4_MintsApart ==
    mints.prev # NoTime => mints.last - mints.prev > Sec(RefreshSeconds)

\* C5 as claimed: of the calls made with one run_id within 300 s of the
\* first, exactly one reaches list_objects_v2; the first call with a new
\* run_id reaches it.
C5_ExactlyOneReaches ==
    calls.first # NoTime => calls.reached /\ ~calls.twice /\ calls.firstReached

\* C5 as amended: of the calls made with one run_id less than 300 s after
\* the first, every call up to and including the first that returns reaches
\* list_objects_v2 (a call that raises memoizes nothing), and every later
\* one returns the memoized sequence without a store call; the first call
\* with a new run_id always reaches list_objects_v2.
C5_OneReturningCallReaches ==
    calls.first # NoTime =>
        /\ calls.firstReached
        /\ calls.firstReturnReached
        /\ ~calls.lateReach
        /\ calls.same

\* a new run_id was first used less than 300 s after a store call, its first
\* call raised, the next returned and a later one was answered from the memo
C5_Witness ==
    calls.newKeySoon /\ calls.raised /\ calls.returned /\ calls.hit

Rendered == op.rendered /\ op.outcome = "ok"

RowAge(row) == op.now - row.obj.LastModified

\* C6 as claimed: the displayed remaining time is 900 - floor(age) and a
\* record is active iff floor(age) < 900, also for a LastModified ahead of
\* the clock.
C6_FlooredRemaining ==
    Rendered =>
        /\ \A r \in Range(view.all) \cup Range(view.active) :
              r.time_remaining = ExpirySeconds - FloorSec(RowAge(r))
        /\ {r.obj : r \in Range(view.active)} =
              {o \in Range(op.listing) :
                  FloorSec(op.now - o.LastModified) < ExpirySeconds}

\* C6 as amended: with age_seconds the age truncated toward zero (int()),
\* the displayed remaining time is 900 - age_seconds, and a record is
\* active iff age_seconds < 900; a record of exactly 900 s is not active.
C6_TruncatedRemaining ==
    Rendered =>
        /\ \A r \in Range(view.all) \cup Range(view.active) :
              LET d == RowAge(r)
              IN  r.time_remaining =
                     ExpirySeconds - (IF d >= 0 THEN d \div Res ELSE -((-d) \div Res))
        /\ {r.obj : r \in Range(view.active)} =
              {o \in Range(op.listing) :
                  LET d == op.now - o.LastModified
                  IN  (IF d >= 0 THEN d \div Res ELSE -((-d) \div Res)) < ExpirySeconds}
        /\ \A r \in Range(view.active) : RowAge(r) # ExpirySeconds * Res

\* a render showed a record whose LastModified is a fraction of a second
\* ahead of the clock
C6_Witness ==
    /\ Rendered
    /\ \E r \in Range(view.active) : RowAge(r) < 0 /\ RowAge(r) % Res # 0

\* position of the first "/" of a key that has one
FirstSlash(key) == Min({i \in 1..Len(key) : key[i] = "/"})
\* position of the first "__" after position i, 0 if there is none
FirstUU(key, i) ==
    LET js == {j \in (i + 1)..(Len(key) - 1) : key[j] = "_" /\ key[j + 1] = "_"}
    IN  IF js = {} THEN 0 ELSE Min(js)
\* key with the first six characters after position i replaced by X
Masked(key, i) ==
    [p \in 1..Len(key) |-> IF i < p /\ p <= i + 6 THEN "X" ELSE key[p]]

\* the token between the first "/" and the first "__" after it is 8 long
TokenShape(key) ==
    /\ \E i \in 1..Len(key) : key[i] = "/"
    /\ FirstUU(key, FirstSlash(key)) = FirstSlash(key) + TokenLen + 1

\* C7 as claimed: the key is masked iff it has exactly one "/", the part
\* after it splits on its first "__", and the token is 8 long; any other
\* key is returned unchanged.
C7_ExactlyOneSlash ==
    op.name = "mask" =>
        mout = IF TokenShape(mkey)
                  /\ Cardinality({i \in 1..Len(mkey) : mkey[i] = "/"}) = 1
               THEN Masked(mkey, FirstSlash(mkey))
               ELSE mkey

\* C7 as amended: the key is masked iff it has at least one "/", the part
\* after the first "/" contains "__", and the token between that "/" and
\* the first "__" after it is 8 long (later "/" may occur, in the token or
\* in the filename); any other key is returned unchanged.
C7_FirstSlash ==
    op.name = "mask" =>
        mout = IF TokenShape(mkey) THEN Masked(mkey, FirstSlash(mkey)) ELSE mkey

\* a key with two "/" was masked
C7_Witness ==
    /\ op.name = "mask"
    /\ mout # mkey
    /\ Cardinality({i \in 1..Len(mkey) : mkey[i] = "/"}) >= 2

\* C8: the deletion log only grows at its end, and only the sweep changes it.
C8_AppendOnly ==
    [][/\ IsPrefix(deletion_log, deletion_log')
       /\ deletion_log' # deletion_log => op'.name = "sweep" /\ op'.swept]_vars

\* a render shows a log that two sweeps have written to
C8_Witness ==
    /\ op.name = "render"
    /\ Len(view.log) = 2
    /\ view.log[1].at # view.log[2].at

\* a render that follows a sweep which read the store, under the same run_id
RenderAfterSweep ==
    /\ op.name = "render" /\ op.outcome = "ok"
    /\ swp.ran /\ swp.reached /\ swp.rid = run_id

\* C9 as claimed: the listing rendered after a sweep holds no key that the
\* sweep deleted.
C9_RenderAfterDeletions ==
    RenderAfterSweep =>
        \A o \in Range(op.listing) : o.Key \notin swp.deleted

\* C9 as amended: the fresh listing a newly minted run_id forces is the one
\* the sweep itself reads, before it deletes.  A render under the same
\* run_id less than 300 s later is answered from the memo with that same
\* snapshot, deleted keys included; a deleted key is absent only from a
\* listing that reached the store after the deletion.
C9_RenderShowsSweepSnapshot ==
    /\ (RenderAfterSweep /\ op.now - swp.now < CacheTtl * Res)
          => ~op.reached /\ op.listing = swp.snap
    /\ (op.name = "render" /\ op.outcome = "ok" /\ op.reached)
          => \A o \in Range(op.listing) : o.Key \notin gone

\* a render after a sweep shows a key the sweep has deleted
C9_Witness ==
    /\ RenderAfterSweep
    /\ \E o \in Range(op.listing) : o.Key \in swp.deleted

\* C10 as claimed: the active view is in ascending order of the displayed
\* remaining time.
C10_ActiveAscending ==
    Rendered =>
        \A i \in 1..(Len(view.active) - 1) :
            view.active[i].time_remaining <= view.active[i + 1].time_remaining

====
